---- MODULE Spec2Model ----
(***************************************************************************)
(* GrantReady-Analytics: the Grant entity (src/src/models/Grant.ts) and    *)
(* the progress metrics calculator (GrantMetrics, src/unnamed/part_001).   *)
(*                                                                         *)
(* JavaScript arrays are objects on a heap: a Grant field such as          *)
(* `milestones` holds a reference, and two Grants built from the same      *)
(* input object hold the same reference.  The model keeps the arrays in    *)
(* `heap` and the references in the Grant records.                         *)
(*                                                                         *)
(* Time is counted in clock units; one day is DayLen units, so that        *)
(* Math.ceil over a fraction of a day is exercised.                        *)
(***************************************************************************)
EXTENDS Integers, Sequences, FiniteSets, TLC

VARIABLES
    heap,     \* array reference -> contents of the array
    grants,   \* Grant instance -> its fields (arrays by reference)
    now,      \* the clock read by `new Date()`
    calls,    \* Grant instance -> number of mutation-method calls made on it
    ret       \* <<>> or <<r>>: the value returned by the most recent call

vars == <<heap, grants, now, calls, ret>>

----------------------------------------------------------------------------
(* Bounds                                                                  *)

MaxCalls == 3      \* mutation-method calls in one behaviour
MaxNow == 6        \* last clock value
DayLen == 2        \* clock units in one day (1000*60*60*24 ms in the code)
MaxReqs == 4       \* longest requirement list passed to assessCompliance

----------------------------------------------------------------------------
(* Values                                                                  *)

GrantIds == {"A", "B"}

GrantStatus ==
    {"draft", "submitted", "under-review", "approved", "active",
     "suspended", "completed", "terminated", "closed"}

Users == {"alice", "bob"}

\* An optional value: <<>> is undefined, <<v>> is the value v.
Undefined == <<>>
Some(v) == <<v>>

\* x || d for an optional number: undefined and 0 are falsy.
NumberOr(x, d) == IF x = Undefined \/ x = Some(0) THEN d ELSE x[1]

\* x || d for an optional object (a Date) or non-empty string: only
\* undefined is falsy.
ObjectOr(x, d) == IF x = Undefined THEN d ELSE x[1]

Refs ==
    {"data", "A", "B"}
        \X {"milestones", "expenditures", "history", "kpis", "documents", "reports",
            "complianceRequirements"}

Milestone(status, completionDate) ==
    [status |-> status, completionDate |-> completionDate]

Expenditure(amount, status) == [amount |-> amount, status |-> status]

KPI(name, targetValue, currentValue) ==
    [name |-> name, targetValue |-> targetValue, currentValue |-> currentValue]

Document(type, status) == [type |-> type, status |-> status]

ReportSubmission(type, submissionDate) ==
    [type |-> type, submissionDate |-> submissionDate]

----------------------------------------------------------------------------
(* Grant: constructor                                                       *)

\* data.<field> || [] : the array of the input object when it has one (an
\* array is truthy even when empty), a fresh array of the new Grant otherwise.
ArrayRef(data, g, field) ==
    IF data[field] THEN <<"data", field>> ELSE <<g, field>>

\* new Grant(data), at clock value t, for the instance named g.
Constructor(data, g, t) ==
    [ status       |-> ObjectOr(data.status, "draft"),
      totalFunding |-> NumberOr(data.totalFunding, 0),
      startDate    |-> ObjectOr(data.startDate, t),
      endDate      |-> ObjectOr(data.endDate, t),
      milestones   |-> ArrayRef(data, g, "milestones"),
      expenditures |-> ArrayRef(data, g, "expenditures"),
      kpis         |-> ArrayRef(data, g, "kpis"),
      documents    |-> ArrayRef(data, g, "documents"),
      reports      |-> ArrayRef(data, g, "reports"),
      complianceRequirements |-> ArrayRef(data, g, "complianceRequirements"),
      updatedBy    |-> "",
      updatedAt    |-> t,
      version      |-> NumberOr(data.version, 1),
      history      |-> ArrayRef(data, g, "history") ]

\* The arrays a Grant instance sees through its references.
Milestones(g) == heap[grants[g].milestones]
Expenditures(g) == heap[grants[g].expenditures]
History(g) == heap[grants[g].history]
Kpis(g) == heap[grants[g].kpis]
Documents(g) == heap[grants[g].documents]
Reports(g) == heap[grants[g].reports]
ComplianceRequirements(g) == heap[grants[g].complianceRequirements]

TotalCalls == calls["A"] + calls["B"]

----------------------------------------------------------------------------
(* Grant: mutation methods                                                  *)

addMilestone_NoVersion(g, milestone) ==
    /\ TotalCalls < MaxCalls
    /\ heap' = [heap EXCEPT ![grants[g].milestones] = Append(@, milestone)]
    /\ grants' = [grants EXCEPT ![g].updatedAt = now]
    /\ calls' = [calls EXCEPT ![g] = @ + 1]
    /\ ret' = <<>>
    /\ UNCHANGED now

addMilestone(g, milestone) ==
    /\ TotalCalls < MaxCalls
    /\ heap' = [heap EXCEPT ![grants[g].milestones] = Append(@, milestone)]
    /\ grants' = [grants EXCEPT ![g].updatedAt = now,
                                ![g].version = @ + 1]
    /\ calls' = [calls EXCEPT ![g] = @ + 1]
    /\ ret' = <<>>
    /\ UNCHANGED now

addExpenditure_Prepending(g, expenditure) ==
    /\ TotalCalls < MaxCalls
    /\ heap' = [heap EXCEPT ![grants[g].expenditures] = <<expenditure>> \o @]
    /\ grants' = [grants EXCEPT ![g].updatedAt = now,
                                ![g].version = @ + 1]
    /\ calls' = [calls EXCEPT ![g] = @ + 1]
    /\ ret' = <<>>
    /\ UNCHANGED now

addExpenditure(g, expenditure) ==
    /\ TotalCalls < MaxCalls
    /\ heap' = [heap EXCEPT ![grants[g].expenditures] = Append(@, expenditure)]
    /\ grants' = [grants EXCEPT ![g].updatedAt = now,
                                ![g].version = @ + 1]
    /\ calls' = [calls EXCEPT ![g] = @ + 1]
    /\ ret' = <<>>
    /\ UNCHANGED now

HistoryEntry(t, user, oldStatus, newStatus) ==
    [ date    |-> t,
      action  |-> "STATUS_CHANGE",
      user    |-> user,
      changes |-> [status |-> [from |-> oldStatus, to |-> newStatus]] ]

updateStatus_Rewrite(g, newStatus, user) ==
    /\ TotalCalls < MaxCalls
    /\ grants' = [grants EXCEPT ![g].status = newStatus,
                                ![g].updatedBy = user,
                                ![g].updatedAt = now,
                                ![g].version = @ + 1]
    /\ heap' = [heap EXCEPT ![grants[g].history] =
                   <<HistoryEntry(now, user, grants[g].status, newStatus)>>]
    /\ calls' = [calls EXCEPT ![g] = @ + 1]
    /\ ret' = <<>>
    /\ UNCHANGED now

updateStatus(g, newStatus, user) ==
    /\ TotalCalls < MaxCalls
    /\ grants' = [grants EXCEPT ![g].status = newStatus,
                                ![g].updatedBy = user,
                                ![g].updatedAt = now,
                                ![g].version = @ + 1]
    /\ heap' = [heap EXCEPT ![grants[g].history] =
                   Append(@, HistoryEntry(now, user, grants[g].status, newStatus))]
    /\ calls' = [calls EXCEPT ![g] = @ + 1]
    /\ ret' = <<>>
    /\ UNCHANGED now

----------------------------------------------------------------------------
(* The Grant state machine: two instances built from one input object.     *)

MilestoneInputs ==
    { Milestone("completed", Undefined), Milestone("delayed", Some(1)) }

ExpenditureInputs ==
    { Expenditure(1, "approved"), Expenditure(2, "pending") }

StatusInputs == {"draft", "active", "closed"}

\* The input objects: each owned collection either supplied (an empty array)
\* or left undefined, and a version either supplied or not.
DataInputs ==
    [ status       : {Undefined},
      totalFunding : {Undefined},
      startDate    : {Undefined},
      endDate      : {Undefined},
      milestones   : BOOLEAN,
      expenditures : BOOLEAN,
      kpis         : {FALSE},
      documents    : {FALSE},
      reports      : {FALSE},
      complianceRequirements : {FALSE},
      history      : BOOLEAN,
      version      : {Undefined, Some(0), Some(2)} ]

InitFrom(data, t) ==
    /\ now = t
    /\ heap = [r \in Refs |-> <<>>]
    /\ grants = [g \in GrantIds |-> Constructor(data, g, t)]
    /\ calls = [g \in GrantIds |-> 0]
    /\ ret = <<>>

Init ==
    \E data \in DataInputs : InitFrom(data, 0)

AddMilestone == \E g \in GrantIds, m \in MilestoneInputs : addMilestone(g, m)

AddExpenditure ==
    \E g \in GrantIds, e \in ExpenditureInputs : addExpenditure(g, e)

UpdateStatus ==
    \E g \in GrantIds, s \in StatusInputs, u \in Users : updateStatus(g, s, u)

Next == AddMilestone \/ AddExpenditure \/ UpdateStatus

Spec == Init /\ [][Next]_vars

----------------------------------------------------------------------------
(* Properties of the Grant state machine                                    *)

IsPrefix(s, t) == Len(s) <= Len(t) /\ SubSeq(t, 1, Len(s)) = s

\* C1: every mutation method appends exactly one audit-history entry, so a
\* Grant whose history started empty has as many history entries as mutation
\* calls were made on it.
C1_HistoryCountsCalls ==
    \A g \in GrantIds : Len(History(g)) = calls[g]

\* C2: each call of addMilestone, addExpenditure or updateStatus increases
\* the version of the Grant it is called on by exactly 1, and no step ever
\* decreases a version.
C2_VersionMonotonic ==
    [][\A g \in GrantIds :
          /\ calls'[g] = calls[g] + 1 =>
                 grants'[g].version = grants[g].version + 1
          /\ grants'[g].version >= grants[g].version]_vars

C2_Witness ==
    \E g \in GrantIds :
        /\ calls[g] >= 2
        /\ Len(Milestones(g)) >= 1
        /\ grants[g].version >= 3

\* C3: history is append-only: in every step the history a Grant had before
\* is a prefix of the history it has afterwards.
C3_HistoryAppendOnly ==
    [][\A g \in GrantIds :
          IsPrefix(heap[grants[g].history], heap'[grants'[g].history])]_vars

C3_Witness ==
    \E g \in GrantIds :
        /\ Len(History(g)) >= 2
        /\ History(g)[1] # History(g)[2]

\* C4: a mutation call on one Grant instance leaves the milestones,
\* expenditures, history and version of the other instance unchanged, also
\* when both were constructed from the same input data.
C4_InstancesIsolated ==
    [][\A g, h \in GrantIds :
          (g # h /\ calls'[g] # calls[g]) =>
              /\ heap'[grants'[h].milestones] = heap[grants[h].milestones]
              /\ heap'[grants'[h].expenditures] = heap[grants[h].expenditures]
              /\ heap'[grants'[h].history] = heap[grants[h].history]
              /\ grants'[h].version = grants[h].version]_vars

----------------------------------------------------------------------------
(* JavaScript numbers, as far as calculateProgress produces them: an exact  *)
(* fraction n/d in lowest terms with d > 0, NaN, Infinity or -Infinity.     *)

RECURSIVE GCD(_, _)
GCD(a, b) == IF b = 0 THEN a ELSE GCD(b, a % b)

AbsInt(x) == IF x < 0 THEN -x ELSE x

Rat(n, d) ==
    LET g == GCD(AbsInt(n), AbsInt(d))
        s == IF d < 0 THEN -1 ELSE 1
    IN  [k |-> "num", n |-> (s * n) \div g, d |-> (s * d) \div g]

NaN == [k |-> "NaN", n |-> 0, d |-> 1]
PosInfinity == [k |-> "Infinity", n |-> 1, d |-> 1]
NegInfinity == [k |-> "-Infinity", n |-> -1, d |-> 1]

\* x - y, |x|, x + y and x / 2 on fractions; NaN propagates.
Minus(x, y) ==
    IF x.k = "num" /\ y.k = "num"
    THEN Rat(x.n * y.d - y.n * x.d, x.d * y.d) ELSE NaN

MathAbs(x) == IF x.k = "num" THEN Rat(AbsInt(x.n), x.d) ELSE NaN

Plus(x, y) ==
    IF x.k = "num" /\ y.k = "num"
    THEN Rat(x.n * y.d + y.n * x.d, x.d * y.d) ELSE NaN

Halve(x) == IF x.k = "num" THEN Rat(x.n, 2 * x.d) ELSE NaN

\* x < y; every comparison with NaN is false.
LessThan(x, y) == x.k = "num" /\ y.k = "num" /\ x.n * y.d < y.n * x.d

\* Math.ceil(diff / (1000*60*60*24)) for a difference of two clock values.
\* The result is an integer; Math.ceil of a value in (-1, 0) is -0, whose
\* sign decides the sign of a later division by it.
MathCeilDays(diff) ==
    LET c == -((-diff) \div DayLen)
    IN  [n |-> c, negZero |-> (c = 0 /\ diff < 0)]

\* a / b for two results of MathCeilDays.
Divide(a, b) ==
    IF b.n # 0 THEN Rat(a.n, b.n)
    ELSE IF a.n = 0 THEN NaN
    ELSE IF (a.n > 0) = (~b.negZero) THEN PosInfinity
    ELSE NegInfinity

\* Math.max(x, 0) and Math.min(x, 1).
MathMax0(x) ==
    CASE x.k = "NaN" -> NaN
      [] x.k = "Infinity" -> PosInfinity
      [] x.k = "-Infinity" -> Rat(0, 1)
      [] OTHER -> IF x.n < 0 THEN Rat(0, 1) ELSE x

MathMin1(x) ==
    CASE x.k = "NaN" -> NaN
      [] x.k = "Infinity" -> Rat(1, 1)
      [] x.k = "-Infinity" -> NegInfinity
      [] OTHER -> IF x.n > x.d THEN Rat(1, 1) ELSE x

----------------------------------------------------------------------------
(* GrantMetrics                                                             *)

calculateRiskLevel_Inclusive(timelineProgress, utilizationRate, milestoneCompletionRate) ==
    LET timelineVsMilestoneDiff ==
            MathAbs(Minus(timelineProgress, milestoneCompletionRate))
        timelineVsFinancialDiff ==
            MathAbs(Minus(timelineProgress, utilizationRate))
        riskScore == Halve(Plus(timelineVsMilestoneDiff, timelineVsFinancialDiff))
    IN  IF ~LessThan(Rat(1, 5), riskScore) /\ riskScore.k = "num" THEN "low"
        ELSE IF ~LessThan(Rat(2, 5), riskScore) /\ riskScore.k = "num"
        THEN "medium"
        ELSE "high"

calculateRiskLevel(timelineProgress, utilizationRate, milestoneCompletionRate) ==
    LET timelineVsMilestoneDiff ==
            MathAbs(Minus(timelineProgress, milestoneCompletionRate))
        timelineVsFinancialDiff ==
            MathAbs(Minus(timelineProgress, utilizationRate))
        riskScore == Halve(Plus(timelineVsMilestoneDiff, timelineVsFinancialDiff))
    IN  IF LessThan(riskScore, Rat(1, 5)) THEN "low"
        ELSE IF LessThan(riskScore, Rat(2, 5)) THEN "medium"
        ELSE "high"

\* expenditures.reduce((sum, exp) => sum + exp.amount, 0)
RECURSIVE SumAmounts(_)
SumAmounts(expenditures) ==
    IF expenditures = <<>> THEN 0
    ELSE SumAmounts(SubSeq(expenditures, 1, Len(expenditures) - 1))
         + expenditures[Len(expenditures)].amount

\* The filter predicate m => m.status === 'completed'.
IsCompleted_ByDate(m) == m.completionDate # Undefined

IsCompleted(m) == m.status = "completed"

CountCompleted(milestones) ==
    Cardinality({i \in DOMAIN milestones : IsCompleted(milestones[i])})

\* Record<string, number>: a function from the keys assigned so far.
EmptyRecord == [name \in {} |-> NaN]

\* achievement[key] = value: a later assignment to a key replaces the earlier.
Assign(achievement, key, value) ==
    [name \in DOMAIN achievement \cup {key} |->
        IF name = key THEN value ELSE achievement[name]]

\* The value one loop iteration assigns for kpi.
KPIValue_Unguarded(kpi) ==
    IF kpi.targetValue # 0 THEN Rat(kpi.currentValue, kpi.targetValue)
    ELSE IF kpi.currentValue = 0 THEN NaN
    ELSE IF kpi.currentValue > 0 THEN PosInfinity
    ELSE NegInfinity

KPIValue(kpi) ==
    IF kpi.targetValue # 0 THEN Rat(kpi.currentValue, kpi.targetValue)
    ELSE Rat(kpi.currentValue, 1)

\* for (const kpi of kpis) achievement[kpi.name] = ...
RECURSIVE calculateKPIAchievement(_)
calculateKPIAchievement(kpis) ==
    IF kpis = <<>> THEN EmptyRecord
    ELSE Assign(calculateKPIAchievement(SubSeq(kpis, 1, Len(kpis) - 1)),
                kpis[Len(kpis)].name, KPIValue(kpis[Len(kpis)]))

\* calculateProgress on a grant with fields `grant`, whose milestones,
\* expenditures and kpis arrays hold `milestones`, `expenditures` and `kpis`,
\* at clock value t.
\* The code has no throw: the call always returns a GrantProgressMetrics.
calculateProgressOf(id, grant, milestones, expenditures, kpis, t) ==
    LET totalDays == MathCeilDays(grant.endDate - grant.startDate)
        daysElapsed == MathCeilDays(t - grant.startDate)
        timelineProgress == MathMin1(MathMax0(Divide(daysElapsed, totalDays)))
        totalFunding == grant.totalFunding
        fundsUtilized == SumAmounts(expenditures)
        utilizationRate ==
            IF totalFunding > 0 THEN Rat(fundsUtilized, totalFunding)
            ELSE Rat(0, 1)
        totalMilestones == Len(milestones)
        milestonesCompleted == CountCompleted(milestones)
        milestoneCompletionRate ==
            IF totalMilestones > 0 THEN Rat(milestonesCompleted, totalMilestones)
            ELSE Rat(0, 1)
        riskLevel == calculateRiskLevel(timelineProgress, utilizationRate,
                                        milestoneCompletionRate)
    IN  [ kind                    |-> "GrantProgressMetrics",
          grantId                 |-> id,
          totalFunding            |-> totalFunding,
          fundsUtilized           |-> fundsUtilized,
          utilizationRate         |-> utilizationRate,
          milestonesCompleted     |-> milestonesCompleted,
          totalMilestones         |-> totalMilestones,
          milestoneCompletionRate |-> milestoneCompletionRate,
          daysElapsed             |-> daysElapsed.n,
          totalDays               |-> totalDays.n,
          timelineProgress        |-> timelineProgress,
          status                  |-> grant.status,
          riskLevel               |-> riskLevel,
          kpiAchievement          |-> calculateKPIAchievement(kpis),
          lastUpdated             |-> t ]

calculateProgress(g) ==
    calculateProgressOf(g, grants[g], Milestones(g), Expenditures(g), Kpis(g),
                        now)

----------------------------------------------------------------------------
(* The calculator applied to one Grant over its life: the Grant is built    *)
(* from input data, collects milestones and expenditures, the clock         *)
(* advances, and calculateProgress is called at any point.                  *)

ProgressGrants == {"A"}

ProgressMilestoneInputs ==
    { Milestone("completed", Undefined), Milestone("completed", Some(1)),
      Milestone("delayed", Some(1)), Milestone("pending", Undefined) }

ProgressExpenditureInputs ==
    { Expenditure(1, "approved"), Expenditure(2, "pending"),
      Expenditure(2, "rejected") }

\* Grants with a regular, an empty and an inverted timeline, and with
\* positive, zero and negative total funding.
ProgressDataInputs ==
    [ status       : {Some("active")},
      totalFunding : {Undefined, Some(5), Some(-5)},
      startDate    : {Some(1), Some(5), Some(6), Some(9)},
      endDate      : {Some(5)},
      milestones   : {FALSE},
      expenditures : {FALSE},
      kpis         : {FALSE},
      documents    : {FALSE},
      reports      : {FALSE},
      complianceRequirements : {FALSE},
      history      : {FALSE},
      version      : {Undefined} ]

InitProgress == \E data \in ProgressDataInputs : InitFrom(data, 0)

Tick ==
    /\ now < MaxNow
    /\ now' = now + 1
    /\ UNCHANGED <<heap, grants, calls, ret>>

CalculateProgress_Touching ==
    \E g \in ProgressGrants :
        /\ ret' = <<calculateProgress(g)>>
        /\ grants' = [grants EXCEPT ![g].version = @ + 1]
        /\ UNCHANGED <<heap, now, calls>>

CalculateProgress ==
    \E g \in ProgressGrants :
        /\ ret' = <<calculateProgress(g)>>
        /\ UNCHANGED <<heap, grants, now, calls>>

RecordMilestone ==
    \E g \in ProgressGrants, m \in ProgressMilestoneInputs : addMilestone(g, m)

RecordExpenditure ==
    \E g \in ProgressGrants, e \in ProgressExpenditureInputs :
        addExpenditure(g, e)

NextProgress == Tick \/ CalculateProgress \/ RecordMilestone \/ RecordExpenditure

SpecProgress == InitProgress /\ [][NextProgress]_vars

----------------------------------------------------------------------------
(* Properties of calculateProgress                                          *)

Returned == {ret[i] : i \in DOMAIN ret}

\* The risk score of a returned record against a threshold p/q, from the
\* record's own triple and in integers: with D the product of the three
\* denominators, riskScore = Deviation / (2 * D).
CommonDenominator(r) ==
    r.timelineProgress.d * r.milestoneCompletionRate.d * r.utilizationRate.d

Scaled(r, x) == x.n * (CommonDenominator(r) \div x.d)

Deviation(r) ==
    AbsInt(Scaled(r, r.timelineProgress) - Scaled(r, r.milestoneCompletionRate))
    + AbsInt(Scaled(r, r.timelineProgress) - Scaled(r, r.utilizationRate))

ScoreBelow(r, p, q) == q * Deviation(r) < p * 2 * CommonDenominator(r)

\* C5: calculateProgress rejects a grant with endDate <= startDate or with
\* negative totalFunding: whatever it returns for such a grant is an
\* InvalidGrantError, never a metrics record.
C5_MalformedGrantRejected ==
    \A r \in Returned :
        ( \/ grants[r.grantId].endDate <= grants[r.grantId].startDate
          \/ grants[r.grantId].totalFunding < 0 )
        => r.kind = "InvalidGrantError"

\* C6: the returned timelineProgress is daysElapsed/totalDays clamped to
\* [0,1]: a number between 0 and 1, 0 at or before startDate, 1 at or after
\* endDate.
C6_TimelineClamped ==
    \A r \in Returned :
        LET tp == r.timelineProgress
            g == grants[r.grantId]
        IN  /\ tp.k = "num" /\ 0 <= tp.n /\ tp.n <= tp.d
            /\ r.lastUpdated <= g.startDate => tp = Rat(0, 1)
            /\ r.lastUpdated >= g.endDate => tp = Rat(1, 1)
            /\ r.totalDays # 0 =>
                   tp = MathMin1(MathMax0(Rat(r.daysElapsed, r.totalDays)))

\* C7: fundsUtilized is the sum of all expenditure amounts, and
\* utilizationRate is fundsUtilized / totalFunding, except that it is 0 when
\* totalFunding = 0.
C7_UtilizationRate ==
    \A r \in Returned :
        /\ r.fundsUtilized = SumAmounts(Expenditures(r.grantId))
        /\ r.utilizationRate.k = "num"
        /\ r.totalFunding = 0 => r.utilizationRate = Rat(0, 1)
        /\ r.totalFunding # 0 =>
               r.utilizationRate.n * r.totalFunding
                   = r.fundsUtilized * r.utilizationRate.d

\* C8: adding a pending or rejected expenditure to a grant changes neither
\* the utilizationRate nor the riskLevel that calculateProgress returns.
C8_OnlyApprovedCount ==
    [][\A g \in ProgressGrants :
          LET before == heap[grants[g].expenditures]
              after == heap'[grants'[g].expenditures]
              m == calculateProgressOf(g, grants[g], heap[grants[g].milestones],
                                       before, heap[grants[g].kpis], now)
              m2 == calculateProgressOf(g, grants'[g],
                                        heap'[grants'[g].milestones], after,
                                        heap'[grants'[g].kpis], now')
          IN  ( /\ Len(after) = Len(before) + 1
                /\ after[Len(after)].status # "approved" )
              => /\ m2.utilizationRate = m.utilizationRate
                 /\ m2.riskLevel = m.riskLevel]_vars

\* C9: riskLevel is low when riskScore < 0.20, medium when
\* 0.20 <= riskScore < 0.40 and high when riskScore >= 0.40, riskScore being
\* (|timelineProgress - milestoneCompletionRate|
\*   + |timelineProgress - utilizationRate|) / 2 of the returned triple.
C9_RiskThresholds ==
    \A r \in Returned :
        r.timelineProgress.k = "num" =>
            /\ ScoreBelow(r, 1, 5) => r.riskLevel = "low"
            /\ (~ScoreBelow(r, 1, 5) /\ ScoreBelow(r, 2, 5)) =>
                   r.riskLevel = "medium"
            /\ ~ScoreBelow(r, 2, 5) => r.riskLevel = "high"

\* A medium result whose riskScore is exactly 0.20.
C9_Witness ==
    \E r \in Returned :
        /\ r.timelineProgress.k = "num"
        /\ 5 * Deviation(r) = 2 * CommonDenominator(r)
        /\ r.riskLevel = "medium"

\* C10: milestoneCompletionRate is the number of milestones with status
\* completed over the number of milestones, whatever their completionDate,
\* and 0 for a grant without milestones, in which case the risk score is
\* computed with 0 as the milestone rate.
C10_MilestoneCompletionRate ==
    \A r \in Returned :
        LET ms == Milestones(r.grantId)
            done == {i \in DOMAIN ms : ms[i].status = "completed"}
            rate == r.milestoneCompletionRate
        IN  /\ r.totalMilestones = Len(ms)
            /\ r.milestonesCompleted = Cardinality(done)
            /\ rate.k = "num"
            /\ rate.n * Len(ms) = Cardinality(done) * rate.d
            /\ Len(ms) = 0 =>
                   /\ rate = Rat(0, 1)
                   /\ r.riskLevel =
                          calculateRiskLevel(r.timelineProgress,
                                             r.utilizationRate, Rat(0, 1))

\* Metrics for a grant with a completed milestone that has no completionDate
\* and an uncompleted one that has a completionDate.
C10_Witness ==
    \E r \in Returned :
        LET ms == Milestones(r.grantId)
        IN  /\ \E i \in DOMAIN ms :
                   ms[i].status = "completed" /\ ms[i].completionDate = Undefined
            /\ \E i \in DOMAIN ms :
                   ms[i].status # "completed" /\ ms[i].completionDate # Undefined
            /\ r.milestoneCompletionRate = Rat(1, 2)

----------------------------------------------------------------------------
(* ComplianceMetrics                                                        *)

\* requirement.parameters?.<field>: undefined when the requirement has no
\* parameters bag or the bag has no such field.
Param(requirement, field) ==
    IF requirement.parameters = Undefined THEN Undefined
    ELSE requirement.parameters[1][field]

\* x || d for an optional rate: undefined and 0 are falsy.
RateOr(x, d) == IF x = Undefined \/ x[1].n = 0 THEN d ELSE x[1]

\* The value of an `any` parameter that is read as an array: an array with
\* its items, or a truthy value that is not iterable, such as the number 5.
ArrayValue(items) == [iterable |-> TRUE, items |-> items]

NotIterable == [iterable |-> FALSE, items |-> <<>>]

\* x || [] for such an optional value.
ArrayOr(x) == IF x = Undefined THEN ArrayValue(<<>>) ELSE x[1]

\* a / b for two integers, as JavaScript divides.
Quotient(a, b) ==
    IF b # 0 THEN Rat(a, b)
    ELSE IF a = 0 THEN NaN
    ELSE IF a > 0 THEN PosInfinity
    ELSE NegInfinity

\* x > y for a quotient x and a finite y; false when x is NaN.
GreaterThan(x, y) ==
    CASE x.k = "NaN" -> FALSE
      [] x.k = "Infinity" -> TRUE
      [] x.k = "-Infinity" -> FALSE
      [] OTHER -> y.n * x.d < x.n * y.d

\* x.toFixed(2): the hundredths of x, rounded half away from zero; NaN and
\* the infinities print as themselves.
ToFixed2(x) ==
    IF x.k # "num" THEN x
    ELSE LET h == (2 * 100 * AbsInt(x.n) + x.d) \div (2 * x.d)
         IN  [k |-> "num", n |-> IF x.n < 0 THEN -h ELSE h, d |-> 100]

\* One evidence string: its template, the name it quotes and the numbers it
\* prints.
Evidence(text, subject, value, limit) ==
    [text |-> text, subject |-> subject, value |-> value, limit |-> limit]

NoNumber == Rat(0, 1)

\* The predicate of submittedDocs.find in checkDocumentation.
IsApprovedDocument_AnyStatus(d, doc) == d.type = doc

IsApprovedDocument(d, doc) == d.type = doc /\ d.status = "approved"

\* submittedDocs.find(...) returned a document.
Found_LastOnly(submittedDocs, doc) ==
    /\ submittedDocs # <<>>
    /\ IsApprovedDocument(submittedDocs[Len(submittedDocs)], doc)

Found(submittedDocs, doc) ==
    \E i \in DOMAIN submittedDocs : IsApprovedDocument(submittedDocs[i], doc)

\* The loop of checkDocumentation from the i-th required document on, with
\* the evidence pushed so far.
RECURSIVE DocumentationLoop(_, _, _, _)
DocumentationLoop(requiredDocs, submittedDocs, i, evidence) ==
    IF i > Len(requiredDocs)
    THEN [status |-> "compliant", evidence |-> evidence]
    ELSE IF Found(submittedDocs, requiredDocs[i])
    THEN DocumentationLoop(requiredDocs, submittedDocs, i + 1,
             Append(evidence, Evidence("Document submitted and approved",
                                       requiredDocs[i], NoNumber, NoNumber)))
    ELSE [status |-> "non-compliant",
          evidence |-> Append(evidence,
              Evidence("Missing or unapproved document", requiredDocs[i],
                       NoNumber, NoNumber))]

checkDocumentation_SkipFirst(requirement, grant, evidence) ==
    LET requiredDocs == ArrayOr(Param(requirement, "requiredDocuments"))
        submittedDocs == grant.documents
    IN  IF requiredDocs.iterable
        THEN DocumentationLoop(requiredDocs.items, submittedDocs, 2, evidence)
        ELSE [status |-> "TypeError", evidence |-> evidence]

checkDocumentation(requirement, grant, evidence) ==
    LET requiredDocs == ArrayOr(Param(requirement, "requiredDocuments"))
        submittedDocs == grant.documents
    IN  IF requiredDocs.iterable
        THEN DocumentationLoop(requiredDocs.items, submittedDocs, 1, evidence)
        ELSE [status |-> "TypeError", evidence |-> evidence]

checkFinancial(requirement, grant, evidence) ==
    LET maxUtilization == RateOr(Param(requirement, "maxUtilizationRate"), Rat(1, 1))
        actualUtilization ==
            Quotient(SumAmounts(grant.expenditures), grant.totalFunding)
    IN  IF GreaterThan(actualUtilization, maxUtilization)
        THEN [status |-> "non-compliant",
              evidence |-> Append(evidence,
                  Evidence("Utilization rate exceeds maximum", "",
                           ToFixed2(actualUtilization), maxUtilization))]
        ELSE [status |-> "compliant",
              evidence |-> Append(evidence,
                  Evidence("Utilization rate within acceptable range", "",
                           ToFixed2(actualUtilization), NoNumber))]

\* The predicate of reports.find in checkReporting; an undefined reportType
\* equals no report type.
IsRequiredReport_Before(r, reportType, dueDate) ==
    /\ reportType # Undefined
    /\ r.type = reportType[1]
    /\ r.submissionDate < dueDate

IsRequiredReport(r, reportType, dueDate) ==
    /\ reportType # Undefined
    /\ r.type = reportType[1]
    /\ r.submissionDate <= dueDate

\* The first element of reports that the predicate accepts.
FirstRequiredReport(reports, reportType, dueDate) ==
    LET idx == {i \in DOMAIN reports :
                   IsRequiredReport(reports[i], reportType, dueDate)}
    IN  IF idx = {} THEN Undefined
        ELSE Some(reports[CHOOSE i \in idx : \A j \in idx : i <= j])

checkReporting(requirement, grant, evidence, t) ==
    LET dueDate == requirement.dueDate
        reportType == Param(requirement, "reportType")
    IN  IF dueDate # Undefined /\ dueDate[1] < t
        THEN LET requiredReport ==
                     FirstRequiredReport(grant.reports, reportType, dueDate[1])
             IN  IF requiredReport = Undefined
                 THEN [status |-> "non-compliant",
                       evidence |-> Append(evidence,
                           Evidence("Missing required report",
                                    IF reportType = Undefined THEN "undefined"
                                    ELSE reportType[1],
                                    NoNumber, NoNumber))]
                 ELSE [status |-> "compliant",
                       evidence |-> Append(evidence,
                           Evidence("Report submitted on", requiredReport[1].type,
                                    Rat(requiredReport[1].submissionDate, 1),
                                    NoNumber))]
        ELSE [status |-> "compliant", evidence |-> evidence]

\* The loop of checkPerformance from the i-th KPI on.
RECURSIVE PerformanceLoop(_, _, _, _)
PerformanceLoop(kpis, minAchievement, i, evidence) ==
    IF i > Len(kpis)
    THEN [status |-> "compliant", evidence |-> evidence]
    ELSE IF kpis[i].targetValue # 0
    THEN LET achievement == Rat(kpis[i].currentValue, kpis[i].targetValue)
         IN  IF LessThan(achievement, minAchievement)
             THEN [status |-> "non-compliant",
                   evidence |-> Append(evidence,
                       Evidence("KPI achievement below minimum", kpis[i].name,
                                ToFixed2(achievement), minAchievement))]
             ELSE PerformanceLoop(kpis, minAchievement, i + 1,
                      Append(evidence,
                          Evidence("KPI achievement", kpis[i].name,
                                   ToFixed2(achievement), NoNumber)))
    ELSE PerformanceLoop(kpis, minAchievement, i + 1, evidence)

checkPerformance(requirement, grant, evidence) ==
    LET minAchievement == RateOr(Param(requirement, "minAchievementRate"), Rat(4, 5))
    IN  PerformanceLoop(grant.kpis, minAchievement, 1, evidence)

\* The ComplianceStatus record built from a requirement.
ComplianceStatus(requirement, status, evidence, t) ==
    [ requirementId |-> requirement.id,
      status        |-> status,
      evidence      |-> evidence,
      lastChecked   |-> t,
      dueDate       |-> requirement.dueDate,
      severity      |-> requirement.severity ]

\* The switch on requirement.type; the default branch leaves 'pending'.
Dispatch(requirement, grant, evidence, t) ==
    CASE requirement.type = "documentation" ->
             checkDocumentation(requirement, grant, evidence)
      [] requirement.type = "financial" ->
             checkFinancial(requirement, grant, evidence)
      [] requirement.type = "reporting" ->
             checkReporting(requirement, grant, evidence, t)
      [] requirement.type = "performance" ->
             checkPerformance(requirement, grant, evidence)
      [] OTHER -> [status |-> "pending", evidence |-> evidence]

evaluateRequirement_NoApplicability(requirement, grant, t) ==
    LET checked == Dispatch(requirement, grant, <<>>, t)
    IN  ComplianceStatus(requirement, checked.status, checked.evidence, t)

evaluateRequirement(requirement, grant, t) ==
    IF requirement.applicableFrom # Undefined /\ requirement.applicableFrom[1] > t
    THEN ComplianceStatus(requirement, "not-applicable", <<>>, t)
    ELSE LET checked == Dispatch(requirement, grant, <<>>, t)
         IN  ComplianceStatus(requirement, checked.status, checked.evidence, t)

\* The number of loop iterations that executed `case status:`.
CountStatus(complianceStatuses, status) ==
    Cardinality({i \in DOMAIN complianceStatuses :
                    complianceStatuses[i].status = status})

\* The number of iterations that incremented the counter of `severity`: the
\* increments are inside `case 'non-compliant':`.
CountSeverity_AnyStatus(complianceStatuses, severity) ==
    Cardinality({i \in DOMAIN complianceStatuses :
                    complianceStatuses[i].severity = severity})

CountSeverity(complianceStatuses, severity) ==
    Cardinality({i \in DOMAIN complianceStatuses :
                    /\ complianceStatuses[i].status = "non-compliant"
                    /\ complianceStatuses[i].severity = severity})

ComplianceRate_Unguarded(compliantCount, totalRequirements) ==
    Quotient(compliantCount, totalRequirements)

ComplianceRate(compliantCount, totalRequirements) ==
    IF totalRequirements > 0 THEN Rat(compliantCount, totalRequirements)
    ELSE Rat(1, 1)

\* pendingCount > totalRequirements * 0.3
OverallStatus_AnyPending(nonCompliantCount, highPriority, pendingCount, totalRequirements) ==
    IF nonCompliantCount > 0
    THEN IF highPriority > 0 THEN "non-compliant" ELSE "at-risk"
    ELSE IF pendingCount > 0 THEN "at-risk"
    ELSE "compliant"

OverallStatus(nonCompliantCount, highPriority, pendingCount, totalRequirements) ==
    IF nonCompliantCount > 0
    THEN IF highPriority > 0 THEN "non-compliant" ELSE "at-risk"
    ELSE IF 10 * pendingCount > 3 * totalRequirements THEN "at-risk"
    ELSE "compliant"

\* The statuses the loop of assessCompliance pushes: one per requirement, in
\* the order of the list.
EvaluateAll_Reversed(requirements, grant, t) ==
    [i \in DOMAIN requirements |->
        evaluateRequirement(requirements[Len(requirements) + 1 - i], grant, t)]

EvaluateAll(requirements, grant, t) ==
    [i \in DOMAIN requirements |->
        evaluateRequirement(requirements[i], grant, t)]

\* What the caller of assessCompliance gets when an evaluation throws: the
\* async method has no try, so its promise is rejected with the TypeError.
Thrown(grant) == [kind |-> "TypeError", grantId |-> grant.id]

\* assessCompliance(grant, requirements) at clock value t; `grant` holds the
\* fields and arrays of the Grant that the rules read.
assessCompliance(grant, requirements, t) ==
    LET complianceStatuses == EvaluateAll(requirements, grant, t)
        compliantCount == CountStatus(complianceStatuses, "compliant")
        nonCompliantCount == CountStatus(complianceStatuses, "non-compliant")
        pendingCount == CountStatus(complianceStatuses, "pending")
        highPriority == CountSeverity(complianceStatuses, "high")
        mediumPriority == CountSeverity(complianceStatuses, "medium")
        lowPriority == CountSeverity(complianceStatuses, "low")
        totalRequirements == Len(requirements)
    IN  IF \E i \in DOMAIN complianceStatuses :
               complianceStatuses[i].status = "TypeError"
        THEN Thrown(grant)
        ELSE
        [ kind                     |-> "ComplianceSummary",
          grantId                  |-> grant.id,
          totalRequirements        |-> totalRequirements,
          compliantRequirements    |-> compliantCount,
          nonCompliantRequirements |-> nonCompliantCount,
          pendingRequirements      |-> pendingCount,
          complianceRate           |-> ComplianceRate(compliantCount,
                                                      totalRequirements),
          highPriorityIssues       |-> highPriority,
          mediumPriorityIssues     |-> mediumPriority,
          lowPriorityIssues        |-> lowPriority,
          status                   |-> OverallStatus(nonCompliantCount,
                                           highPriority, pendingCount,
                                           totalRequirements),
          lastAssessment           |-> t,
          requirements             |-> complianceStatuses ]

\* The Grant g as the calculators read it.
GrantView(g) ==
    [ id           |-> g,
      totalFunding |-> grants[g].totalFunding,
      expenditures |-> Expenditures(g),
      kpis         |-> Kpis(g),
      documents    |-> Documents(g),
      reports      |-> Reports(g) ]

----------------------------------------------------------------------------
(* Compliance requirements                                                  *)

Parameters(requiredDocuments, maxUtilizationRate, reportType, minAchievementRate) ==
    Some([ requiredDocuments  |->
               IF requiredDocuments = Undefined THEN Undefined
               ELSE Some(ArrayValue(requiredDocuments[1])),
           maxUtilizationRate |-> maxUtilizationRate,
           reportType         |-> reportType,
           minAchievementRate |-> minAchievementRate ])

\* A requirement that applies from the start; its id is its name paired with
\* its applicableFrom, so that an id names one requirement.
Requirement(name, type, severity, dueDate, parameters) ==
    [ id             |-> <<name, Undefined>>,
      type           |-> type,
      severity       |-> severity,
      applicableFrom |-> Undefined,
      dueDate        |-> dueDate,
      parameters     |-> parameters ]

ApplicableFrom(requirement, date) ==
    [requirement EXCEPT !.applicableFrom = Some(date),
                        !.id = <<requirement.id[1], Some(date)>>]

\* The requirement with parameters.requiredDocuments set to a number.
MalformedDocuments(requirement) ==
    [requirement EXCEPT !.parameters =
        Some([@[1] EXCEPT !.requiredDocuments = Some(NotIterable)])]

DocumentationRequirements ==
    { Requirement("d1", "documentation", "high", Undefined, Undefined),
      Requirement("d2", "documentation", "medium", Undefined,
                  Parameters(Some(<<>>), Undefined, Undefined, Undefined)),
      Requirement("d3", "documentation", "high", Undefined,
                  Parameters(Some(<<"audit">>), Undefined, Undefined, Undefined)),
      Requirement("d4", "documentation", "low", Some(3),
                  Parameters(Some(<<"audit", "budget">>), Undefined, Undefined,
                             Undefined)),
      Requirement("d5", "documentation", "medium", Undefined,
                  Parameters(Some(<<"budget">>), Undefined, Undefined, Undefined)),
      MalformedDocuments(Requirement("d6", "documentation", "low", Undefined,
                  Parameters(Undefined, Undefined, Undefined, Undefined))) }

FinancialRequirements ==
    { Requirement("f1", "financial", "medium", Undefined,
                  Parameters(Undefined, Undefined, Undefined, Undefined)),
      Requirement("f2", "financial", "high", Undefined,
                  Parameters(Undefined, Some(Rat(0, 1)), Undefined, Undefined)),
      Requirement("f3", "financial", "low", Undefined,
                  Parameters(Undefined, Some(Rat(1, 2)), Undefined, Undefined)),
      Requirement("f4", "financial", "low", Undefined, Undefined) }

ReportingRequirements ==
    { Requirement("p1", "reporting", "high", Undefined,
                  Parameters(Undefined, Undefined, Some("quarterly"), Undefined)),
      Requirement("p2", "reporting", "medium", Some(3),
                  Parameters(Undefined, Undefined, Some("quarterly"), Undefined)),
      Requirement("p3", "reporting", "low", Some(3), Undefined) }

PerformanceRequirements ==
    { Requirement("k1", "performance", "medium", Undefined,
                  Parameters(Undefined, Undefined, Undefined, Undefined)),
      Requirement("k2", "performance", "high", Undefined,
                  Parameters(Undefined, Undefined, Undefined, Some(Rat(0, 1)))),
      Requirement("k3", "performance", "low", Undefined,
                  Parameters(Undefined, Undefined, Undefined, Some(Rat(1, 2)))),
      Requirement("k4", "performance", "low", Undefined, Undefined) }

\* A requirement whose type is none of the four the evaluator knows.
OtherRequirements ==
    { Requirement("o1", "security", "low", Undefined, Undefined) }

BaseRequirements ==
    DocumentationRequirements \cup FinancialRequirements
        \cup ReportingRequirements \cup PerformanceRequirements
        \cup OtherRequirements

\* Every requirement, applying from the start or from clock value 5.
RequirementInputs ==
    BaseRequirements \cup {ApplicableFrom(q, 5) : q \in BaseRequirements}

RequirementById(id) == CHOOSE q \in RequirementInputs : q.id = id

----------------------------------------------------------------------------
(* Both calculators applied to a populated Grant: the Grant is built from    *)
(* input data that supplies its collections, the clock advances, and         *)
(* calculateProgress or assessCompliance (with one requirement or none) is   *)
(* called at any point.                                                      *)

Populated(totalFunding, expenditures, kpis, documents, reports) ==
    [ totalFunding |-> totalFunding,
      expenditures |-> expenditures,
      kpis         |-> kpis,
      documents    |-> documents,
      reports      |-> reports,
      complianceRequirements |-> <<>> ]

DocumentInputs ==
    { Document("audit", "approved"), Document("audit", "pending"),
      Document("budget", "approved") }

DocumentLists ==
    {<<>>} \cup {<<d>> : d \in DocumentInputs}
           \cup {<<d, e>> : d \in DocumentInputs, e \in DocumentInputs}

ExpenditureLists ==
    { <<>>,
      <<Expenditure(1, "approved")>>,
      <<Expenditure(2, "approved")>>,
      <<Expenditure(1, "approved"), Expenditure(2, "pending")>>,
      <<Expenditure(2, "pending"), Expenditure(3, "rejected")>> }

ReportLists ==
    { <<ReportSubmission("quarterly", 3)>>,
      <<ReportSubmission("quarterly", 4)>>,
      <<ReportSubmission("annual", 2)>>,
      <<ReportSubmission("quarterly", 4), ReportSubmission("quarterly", 3)>> }

KpiLists ==
    { <<KPI("a", 2, 1)>>,
      <<KPI("a", 0, 5)>>,
      <<KPI("a", 5, 4)>>,
      <<KPI("a", 4, 3), KPI("a", 4, 1)>>,
      <<KPI("a", 4, 1), KPI("b", 4, 4)>>,
      <<KPI("a", 0, 0), KPI("b", 1, 1)>> }

\* Grants that vary one collection each.
PopulatedInputs ==
    {Populated(Some(4), <<>>, <<>>, d, <<>>) : d \in DocumentLists}
    \cup {Populated(f, e, <<>>, <<>>, <<>>) :
              f \in {Undefined, Some(4)}, e \in ExpenditureLists}
    \cup {Populated(Some(4), <<>>, <<>>, <<>>, r) : r \in ReportLists}
    \cup {Populated(Some(4), <<>>, k, <<>>, <<>>) : k \in KpiLists}

\* new Grant(data) for both instances, data supplying the arrays of p.
InitPopulated(p) ==
    LET data == [ status       |-> Some("active"),
                  totalFunding |-> p.totalFunding,
                  startDate    |-> Some(1),
                  endDate      |-> Some(5),
                  milestones   |-> FALSE,
                  expenditures |-> TRUE,
                  kpis         |-> TRUE,
                  documents    |-> TRUE,
                  reports      |-> TRUE,
                  complianceRequirements |-> TRUE,
                  history      |-> FALSE,
                  version      |-> Undefined ]
    IN  /\ now = 0
        /\ heap = [r \in Refs |->
                      IF r[1] = "data" /\ r[2] \in DOMAIN p THEN p[r[2]]
                      ELSE <<>>]
        /\ grants = [g \in GrantIds |-> Constructor(data, g, 0)]
        /\ calls = [g \in GrantIds |-> 0]
        /\ ret = <<>>

InitCompliance == \E p \in PopulatedInputs : InitPopulated(p)

AssessRequirement ==
    \E g \in ProgressGrants, q \in RequirementInputs :
        /\ ret' = <<assessCompliance(GrantView(g), <<q>>, now)>>
        /\ UNCHANGED <<heap, grants, now, calls>>

AssessNothing ==
    \E g \in ProgressGrants :
        /\ ret' = <<assessCompliance(GrantView(g), <<>>, now)>>
        /\ UNCHANGED <<heap, grants, now, calls>>

NextCompliance == Tick \/ CalculateProgress \/ AssessRequirement \/ AssessNothing

SpecCompliance == InitCompliance /\ [][NextCompliance]_vars

----------------------------------------------------------------------------
(* assessCompliance applied to requirement lists of up to MaxReqs elements. *)

SummaryRequirements ==
    { RequirementById(<<"d2", Undefined>>), RequirementById(<<"d3", Undefined>>),
      RequirementById(<<"d4", Undefined>>), RequirementById(<<"d5", Undefined>>),
      RequirementById(<<"o1", Undefined>>), RequirementById(<<"d3", Some(5)>>),
      RequirementById(<<"f4", Undefined>>), RequirementById(<<"d6", Undefined>>) }

RequirementLists ==
    UNION {[1..n -> SummaryRequirements] : n \in 0..MaxReqs}

\* A Grant without funding, documents or reports that carries one of the
\* requirement lists.
SummaryInputs ==
    { [Populated(Undefined, <<>>, <<>>, <<>>, <<>>)
           EXCEPT !.complianceRequirements = requirements] :
        requirements \in RequirementLists }

InitSummary == \E p \in SummaryInputs : InitPopulated(p)

\* assessCompliance(grant, grant.complianceRequirements)
AssessCompliance ==
    \E g \in ProgressGrants :
        /\ ret' = <<assessCompliance(GrantView(g), ComplianceRequirements(g), now)>>
        /\ UNCHANGED <<heap, grants, now, calls>>

NextSummary == Tick \/ AssessCompliance

SpecSummary == InitSummary /\ [][NextSummary]_vars

----------------------------------------------------------------------------
(* Properties of the KPI achievement map                                    *)

Metrics == {r \in Returned : r.kind = "GrantProgressMetrics"}

Summaries == {r \in Returned : r.kind = "ComplianceSummary"}

\* v is the achievement the claim gives for kpi.
IsAchievementOf(v, kpi) ==
    /\ v.k = "num"
    /\ kpi.targetValue # 0 => v.n * kpi.targetValue = kpi.currentValue * v.d
    /\ kpi.targetValue = 0 => (v.n = kpi.currentValue /\ v.d = 1)

\* C11 as stated: for every KPI of the grant, kpiAchievement[name] is
\* currentValue / targetValue, or currentValue when targetValue = 0, and the
\* map has one entry per KPI name.
C11_AchievementOfEveryKPI ==
    \A r \in Metrics :
        LET kpis == Kpis(r.grantId)
        IN  /\ DOMAIN r.kpiAchievement = {kpis[i].name : i \in DOMAIN kpis}
            /\ \A i \in DOMAIN kpis :
                   IsAchievementOf(r.kpiAchievement[kpis[i].name], kpis[i])

\* C11 as amended: the map has one entry per KPI name, and for every KPI
\* that no later KPI of the grant shares its name with, kpiAchievement[name]
\* is currentValue / targetValue, or currentValue when targetValue = 0; no
\* entry is NaN or infinite.
C11_AchievementOfLastKPI ==
    \A r \in Metrics :
        LET kpis == Kpis(r.grantId)
        IN  /\ DOMAIN r.kpiAchievement = {kpis[i].name : i \in DOMAIN kpis}
            /\ \A name \in DOMAIN r.kpiAchievement :
                   r.kpiAchievement[name].k = "num"
            /\ \A i \in DOMAIN kpis :
                   (\A j \in DOMAIN kpis : j > i => kpis[j].name # kpis[i].name)
                   => IsAchievementOf(r.kpiAchievement[kpis[i].name], kpis[i])

\* Metrics of a grant with a KPI whose target is 0 and a KPI with a target.
C11_Witness ==
    \E r \in Metrics :
        LET kpis == Kpis(r.grantId)
        IN  /\ \E i \in DOMAIN kpis :
                   /\ kpis[i].targetValue = 0
                   /\ r.kpiAchievement[kpis[i].name] = Rat(kpis[i].currentValue, 1)
            /\ \E i \in DOMAIN kpis :
                   /\ kpis[i].targetValue # 0
                   /\ r.kpiAchievement[kpis[i].name] = Rat(1, 1)

----------------------------------------------------------------------------
(* Properties of the compliance summary                                     *)

\* The positions of a summary's requirement list that got `status`.
WithStatus(r, status) ==
    {i \in DOMAIN r.requirements : r.requirements[i].status = status}

\* C12: with a non-compliant requirement the overall status is non-compliant
\* when one of them has severity high and at-risk otherwise; without one it
\* is at-risk when pendingCount > 0.3 * totalRequirements and compliant
\* otherwise; so compliant implies no requirement is non-compliant.
C12_OverallStatus ==
    \A r \in Summaries :
        LET nc == WithStatus(r, "non-compliant")
            pending == Cardinality(WithStatus(r, "pending"))
            total == Len(r.requirements)
        IN  /\ (nc # {} /\ \E i \in nc : r.requirements[i].severity = "high")
                   => r.status = "non-compliant"
            /\ (nc # {} /\ \A i \in nc : r.requirements[i].severity # "high")
                   => r.status = "at-risk"
            /\ (nc = {} /\ 10 * pending > 3 * total) => r.status = "at-risk"
            /\ (nc = {} /\ 10 * pending <= 3 * total) => r.status = "compliant"
            /\ r.status = "compliant" => nc = {}

\* A compliant summary of four requirements, one of them pending.
C12_Witness ==
    \E r \in Summaries :
        /\ Len(r.requirements) = 4
        /\ Cardinality(WithStatus(r, "pending")) = 1
        /\ r.status = "compliant"

\* C13: complianceRate is compliantRequirements / totalRequirements, where
\* totalRequirements is the length of the requirement list, not-applicable
\* and pending ones included; for an empty list the rate is 1 and the status
\* compliant.
C13_ComplianceRate ==
    \A r \in Summaries :
        LET total == Len(ComplianceRequirements(r.grantId))
        IN  /\ r.totalRequirements = total
            /\ r.compliantRequirements = Cardinality(WithStatus(r, "compliant"))
            /\ r.complianceRate.k = "num"
            /\ total > 0 =>
                   r.complianceRate.n * total
                       = r.compliantRequirements * r.complianceRate.d
            /\ total = 0 =>
                   (r.complianceRate = Rat(1, 1) /\ r.status = "compliant")

\* A summary of one compliant, one pending and one not-applicable
\* requirement, with rate 1/3.
C13_Witness ==
    \E r \in Summaries :
        /\ WithStatus(r, "not-applicable") # {}
        /\ WithStatus(r, "pending") # {}
        /\ r.complianceRate = Rat(1, 3)

\* C14: the four status counts add up to totalRequirements, which is the
\* length of the returned list; the three severity counters add up to
\* nonCompliantRequirements, each counting the non-compliant requirements of
\* its severity.
C14_CountersPartition ==
    \A r \in Summaries :
        LET nc == WithStatus(r, "non-compliant")
            OfSeverity(sev) ==
                Cardinality({i \in nc : r.requirements[i].severity = sev})
        IN  /\ r.compliantRequirements + r.nonCompliantRequirements
                   + r.pendingRequirements
                   + Cardinality(WithStatus(r, "not-applicable"))
                   = r.totalRequirements
            /\ r.totalRequirements = Len(r.requirements)
            /\ r.highPriorityIssues + r.mediumPriorityIssues
                   + r.lowPriorityIssues = r.nonCompliantRequirements
            /\ r.nonCompliantRequirements = Cardinality(nc)
            /\ r.highPriorityIssues = OfSeverity("high")
            /\ r.mediumPriorityIssues = OfSeverity("medium")
            /\ r.lowPriorityIssues = OfSeverity("low")

\* A summary with a compliant requirement of severity medium, a
\* not-applicable one, and non-compliant ones of two severities.
C14_Witness ==
    \E r \in Summaries :
        /\ \E i \in WithStatus(r, "compliant") :
               r.requirements[i].severity = "medium"
        /\ WithStatus(r, "not-applicable") # {}
        /\ r.highPriorityIssues = 1
        /\ r.lowPriorityIssues = 1
        /\ r.mediumPriorityIssues = 0

----------------------------------------------------------------------------
(* Properties of the per-requirement rules. A returned status names its     *)
(* requirement by id, and the Grant's collections do not change after        *)
(* construction, so each result is compared with the requirement and the     *)
(* grant data it was computed from.                                          *)

RequirementOf(st) == RequirementById(st.requirementId)

NotYetApplicable(q, t) ==
    q.applicableFrom # Undefined /\ q.applicableFrom[1] > t

\* The requirement q of `type` was evaluated by its rule at time t.
Applies(q, type, t) == q.type = type /\ ~NotYetApplicable(q, t)

\* C15: a requirement whose applicableFrom is set and lies after the
\* evaluation time gets status not-applicable and empty evidence, whatever
\* its type, severity, dueDate and parameters and whatever the grant holds.
C15_NotApplicableBeforeStart ==
    \A r \in Summaries :
        \A i \in DOMAIN r.requirements :
            LET st == r.requirements[i]
            IN  NotYetApplicable(RequirementOf(st), r.lastAssessment)
                    => st.status = "not-applicable" /\ st.evidence = <<>>

\* A not-applicable result for a documentation requirement that asks for an
\* audit document, on a grant without documents.
C15_Witness ==
    \E r \in Summaries :
        \E i \in DOMAIN r.requirements :
            /\ r.requirements[i].requirementId = <<"d3", Some(5)>>
            /\ r.requirements[i].status = "not-applicable"
            /\ Documents(r.grantId) = <<>>
            /\ r.lastAssessment > 3

\* The document types a requirement asks for.
RequiredDocuments(q) ==
    IF q.parameters = Undefined THEN <<>>
    ELSE IF q.parameters[1].requiredDocuments = Undefined THEN <<>>
    ELSE q.parameters[1].requiredDocuments[1].items

HasApproved(documents, type) ==
    \E j \in DOMAIN documents :
        documents[j].type = type /\ documents[j].status = "approved"

\* C16: an applicable documentation requirement is compliant iff every
\* required document type has a grant Document of that type with status
\* approved, and non-compliant otherwise; so an empty or absent list is
\* compliant and the result is never pending.
C16_DocumentationRule ==
    \A r \in Summaries :
        \A i \in DOMAIN r.requirements :
            LET st == r.requirements[i]
                q == RequirementOf(st)
                required == RequiredDocuments(q)
                satisfied ==
                    \A j \in DOMAIN required :
                        HasApproved(Documents(r.grantId), required[j])
            IN  Applies(q, "documentation", r.lastAssessment) =>
                    /\ st.status \in {"compliant", "non-compliant"}
                    /\ st.status = "compliant" <=> satisfied

\* A non-compliant result for a requirement whose only required type is
\* present, but not approved.
C16_Witness ==
    \E r \in Summaries :
        \E i \in DOMAIN r.requirements :
            /\ r.requirements[i].requirementId = <<"d3", Undefined>>
            /\ r.requirements[i].status = "non-compliant"
            /\ Documents(r.grantId) = <<Document("audit", "pending")>>

ApprovedDocuments == {d \in DocumentInputs : d.status = "approved"}

\* The status of q at time t on grant g with the document d added, at the
\* end or at the front of its documents.
StatusWith(q, g, d, t, atEnd) ==
    evaluateRequirement(q,
        [GrantView(g) EXCEPT !.documents =
            IF atEnd THEN Append(@, d) ELSE <<d>> \o @], t).status

\* C17: for a returned result of a documentation requirement, evaluating the
\* same requirement at the same time after an approved Document was added to
\* the grant's documents gives compliant when the result was compliant, and
\* compliant or non-compliant when it was non-compliant.
C17_DocumentationMonotonic ==
    \A r \in Summaries :
        \A i \in DOMAIN r.requirements :
            LET st == r.requirements[i]
                q == RequirementOf(st)
            IN  Applies(q, "documentation", r.lastAssessment) =>
                    \A d \in ApprovedDocuments, atEnd \in BOOLEAN :
                        LET after == StatusWith(q, r.grantId, d,
                                                r.lastAssessment, atEnd)
                        IN  /\ st.status = "compliant" => after = "compliant"
                            /\ st.status = "non-compliant" =>
                                   after \in {"compliant", "non-compliant"}

\* A compliant result on a grant with an approved audit document, which
\* stays compliant when a budget document is added, and a non-compliant one
\* that an added document turns compliant.
C17_Witness ==
    \E r \in Summaries :
        \E i \in DOMAIN r.requirements :
            /\ r.requirements[i].requirementId = <<"d3", Undefined>>
            /\ r.requirements[i].status = "compliant"
            /\ Documents(r.grantId) = <<Document("audit", "approved")>>
            /\ StatusWith(RequirementOf(r.requirements[i]), r.grantId,
                          Document("budget", "approved"), r.lastAssessment,
                          TRUE) = "compliant"

\* The rate a requirement supplies in `field`, or `default` when the
\* parameter is absent.
SuppliedRate(q, field, default) ==
    IF q.parameters = Undefined THEN default
    ELSE IF q.parameters[1][field] = Undefined THEN default
    ELSE q.parameters[1][field][1]

\* C18: an applicable financial requirement is non-compliant exactly when
\* the sum of all expenditure amounts divided by totalFunding exceeds the
\* supplied maxUtilizationRate (0 included; 1 when absent), and compliant
\* otherwise.
C18_FinancialRule ==
    \A r \in Summaries :
        \A i \in DOMAIN r.requirements :
            LET st == r.requirements[i]
                q == RequirementOf(st)
                g == r.grantId
                actualUtilization ==
                    Quotient(SumAmounts(Expenditures(g)), grants[g].totalFunding)
                exceeds ==
                    GreaterThan(actualUtilization,
                                SuppliedRate(q, "maxUtilizationRate", Rat(1, 1)))
            IN  Applies(q, "financial", r.lastAssessment) =>
                    st.status = IF exceeds THEN "non-compliant" ELSE "compliant"

\* C19: an applicable reporting requirement is non-compliant exactly when
\* its dueDate is set and before the evaluation time and no report of the
\* grant has the required type and a submissionDate on or before dueDate;
\* otherwise it is compliant.
C19_ReportingRule ==
    \A r \in Summaries :
        \A i \in DOMAIN r.requirements :
            LET st == r.requirements[i]
                q == RequirementOf(st)
                reports == Reports(r.grantId)
                timely ==
                    \E j \in DOMAIN reports :
                        /\ q.parameters # Undefined
                        /\ q.parameters[1].reportType = Some(reports[j].type)
                        /\ reports[j].submissionDate <= q.dueDate[1]
                overdue ==
                    /\ q.dueDate # Undefined
                    /\ q.dueDate[1] < r.lastAssessment
                    /\ ~timely
            IN  Applies(q, "reporting", r.lastAssessment) =>
                    st.status = IF overdue THEN "non-compliant" ELSE "compliant"

\* A compliant result after the due date, for a report submitted on the due
\* date itself.
C19_Witness ==
    \E r \in Summaries :
        \E i \in DOMAIN r.requirements :
            /\ r.requirements[i].requirementId = <<"p2", Undefined>>
            /\ r.requirements[i].status = "compliant"
            /\ r.lastAssessment > 3
            /\ Reports(r.grantId) = <<ReportSubmission("quarterly", 3)>>

\* C20: an applicable performance requirement is compliant iff every KPI
\* with a nonzero targetValue has currentValue / targetValue at or above the
\* supplied minAchievementRate (0 included; 4/5 when absent), and
\* non-compliant otherwise; KPIs with targetValue 0 do not count.
C20_PerformanceRule ==
    \A r \in Summaries :
        \A i \in DOMAIN r.requirements :
            LET st == r.requirements[i]
                q == RequirementOf(st)
                kpis == Kpis(r.grantId)
                minimum == SuppliedRate(q, "minAchievementRate", Rat(4, 5))
                met ==
                    \A j \in DOMAIN kpis :
                        kpis[j].targetValue # 0 =>
                            ~LessThan(Rat(kpis[j].currentValue,
                                          kpis[j].targetValue), minimum)
            IN  Applies(q, "performance", r.lastAssessment) =>
                    st.status = IF met THEN "compliant" ELSE "non-compliant"

----------------------------------------------------------------------------
(* Properties of the calculators as functions                               *)

RequirementStatuses == {"compliant", "non-compliant", "pending", "not-applicable"}

\* C21: assessCompliance never raises: for every requirement list it returns
\* a ComplianceSummary with one status per requirement of the list, in the
\* list's order, each one of the four statuses; this includes requirements
\* without parameters or with a malformed one, a grant with totalFunding 0
\* and without documents or reports, and requirements of an unrecognized
\* type, which get pending with empty evidence.
C21_AlwaysASummary ==
    \A r \in Returned :
        LET requirements == ComplianceRequirements(r.grantId)
        IN  /\ r.kind = "ComplianceSummary"
            /\ Len(r.requirements) = Len(requirements)
            /\ \A i \in DOMAIN requirements :
                   LET st == r.requirements[i]
                       q == requirements[i]
                   IN  /\ st.requirementId = q.id
                       /\ st.status \in RequirementStatuses
                       /\ ( /\ q.type \notin {"documentation", "financial",
                                              "reporting", "performance"}
                            /\ ~NotYetApplicable(q, r.lastAssessment) )
                          => (st.status = "pending" /\ st.evidence = <<>>)

\* The fields of two results of the same calculator that a retry must
\* reproduce.
SameAnswer(r1, r2) ==
    CASE r1.kind = "GrantProgressMetrics" ->
             /\ r2.timelineProgress = r1.timelineProgress
             /\ r2.daysElapsed = r1.daysElapsed
             /\ r2.riskLevel = r1.riskLevel
      [] r1.kind = "ComplianceSummary" ->
             /\ Len(r2.requirements) = Len(r1.requirements)
             /\ \A i \in DOMAIN r1.requirements :
                    r2.requirements[i].status = r1.requirements[i].status
             /\ r2.complianceRate = r1.complianceRate
             /\ r2.status = r1.status
      [] OTHER -> TRUE

\* The requirement ids of a summary, in order; no ids for another result.
AssessedIds(r) ==
    IF r.kind = "ComplianceSummary"
    THEN [i \in DOMAIN r.requirements |-> r.requirements[i].requirementId]
    ELSE <<>>

\* C22: a call of calculateProgress or assessCompliance that follows, at any
\* later point, a call of the same calculator on the same unchanged grant
\* (and the same requirements) returns the same timelineProgress,
\* daysElapsed and riskLevel, or the same per-requirement statuses,
\* complianceRate and overall status.
C22_RetrySafe ==
    [][( /\ ret # <<>> /\ ret' # <<>>
         /\ heap' = heap /\ grants' = grants
         /\ ret'[1].kind = ret[1].kind
         /\ ret'[1].grantId = ret[1].grantId
         /\ AssessedIds(ret'[1]) = AssessedIds(ret[1]) )
       => SameAnswer(ret[1], ret'[1])]_vars

\* C23: a call of calculateProgress or assessCompliance, that is a step
\* that returns a value while the clock stands, leaves every grant's status,
\* version, history, milestones, expenditures, kpis, documents, reports and
\* requirement list as they were.
C23_NoSideEffects ==
    [][(ret' # <<>> /\ now' = now) =>
          \A g \in GrantIds :
              /\ grants'[g].status = grants[g].status
              /\ grants'[g].version = grants[g].version
              /\ \A field \in {"history", "milestones", "expenditures", "kpis",
                               "documents", "reports", "complianceRequirements"} :
                     /\ grants'[g][field] = grants[g][field]
                     /\ heap'[grants'[g][field]] = heap[grants[g][field]]]_vars

\* A summary was returned for a grant that holds two documents.
C23_Witness ==
    \E r \in Summaries :
        /\ Len(Documents(r.grantId)) = 2
        /\ Len(r.requirements) = 1
        /\ grants[r.grantId].version = 1

\* The list with the elements at positions i and j exchanged.
Swapped(list, i, j) ==
    [k \in DOMAIN list |->
        IF k = i THEN list[j] ELSE IF k = j THEN list[i] ELSE list[k]]

Counters(r) ==
    <<r.totalRequirements, r.compliantRequirements, r.nonCompliantRequirements,
      r.pendingRequirements, r.highPriorityIssues, r.mediumPriorityIssues,
      r.lowPriorityIssues, r.complianceRate, r.status>>

\* C24: in a returned summary the status record of each requirement is the
\* one the requirement gets when it is assessed alone for the same grant at
\* the same time; and assessing the list with any two requirements exchanged
\* returns the statuses exchanged in the same way and the same counters,
\* complianceRate and overall status (exchanges generate every permutation).
C24_RequirementsIndependent ==
    \A r \in Summaries :
        LET requirements == ComplianceRequirements(r.grantId)
            grant == GrantView(r.grantId)
            t == r.lastAssessment
        IN  /\ \A i \in DOMAIN requirements :
                   r.requirements[i] =
                       assessCompliance(grant, <<requirements[i]>>, t).requirements[1]
            /\ \A i, j \in DOMAIN requirements :
                   i < j =>
                       LET r2 == assessCompliance(grant,
                                     Swapped(requirements, i, j), t)
                       IN  /\ r2.requirements = Swapped(r.requirements, i, j)
                           /\ Counters(r2) = Counters(r)

\* A summary of four requirements with four different statuses.
C24_Witness ==
    \E r \in Summaries :
        /\ Len(r.requirements) = 4
        /\ \A s \in RequirementStatuses : WithStatus(r, s) # {}

----------------------------------------------------------------------------
(* Properties of the evidence log                                           *)

\* The positions of the required document types without an approved document.
Unapproved(required, documents) ==
    {j \in DOMAIN required : ~HasApproved(documents, required[j])}

\* C25: the evidence of a requirement that is not yet applicable or of an
\* unrecognized type is empty; the evidence of a documentation requirement
\* has its i-th entry about the i-th required document type: one approval
\* entry per required type when the result is compliant, and when the k-th
\* required type is the first without an approved document, k - 1 approval
\* entries followed by the entry that names the k-th as missing.
C25_EvidenceLog ==
    \A r \in Summaries :
        \A i \in DOMAIN r.requirements :
            LET st == r.requirements[i]
                q == RequirementOf(st)
                ev == st.evidence
                required == RequiredDocuments(q)
                missing == Unapproved(required, Documents(r.grantId))
                k == CHOOSE j \in missing : \A m \in missing : j <= m
            IN  /\ NotYetApplicable(q, r.lastAssessment) => ev = <<>>
                /\ Applies(q, "security", r.lastAssessment) => ev = <<>>
                /\ Applies(q, "documentation", r.lastAssessment) =>
                       /\ \A j \in DOMAIN ev : ev[j].subject = required[j]
                       /\ Len(ev) = IF missing = {} THEN Len(required) ELSE k
                       /\ \A j \in DOMAIN ev :
                              ev[j].text =
                                  IF missing # {} /\ j = k
                                  THEN "Missing or unapproved document"
                                  ELSE "Document submitted and approved"

\* A non-compliant result with two evidence entries: the first required
\* document is approved, the second is missing.
C25_Witness ==
    \E r \in Summaries :
        \E i \in DOMAIN r.requirements :
            /\ r.requirements[i].requirementId = <<"d4", Undefined>>
            /\ r.requirements[i].status = "non-compliant"
            /\ Len(r.requirements[i].evidence) = 2
            /\ r.requirements[i].evidence[2].subject = "budget"

----------------------------------------------------------------------------
(* Grant: the read-only helper methods                                      *)

\* getProgress(): the share of milestones with status completed.
getProgress(g) ==
    IF Len(Milestones(g)) = 0 THEN Rat(0, 1)
    ELSE Rat(CountCompleted(Milestones(g)), Len(Milestones(g)))

\* The filter predicate e => e.status === 'approved'.
IsApproved(e) == e.status = "approved"

\* getFinancialUtilization(): approved spending over totalFunding.
getFinancialUtilization_AllStatuses(g) ==
    IF grants[g].totalFunding = 0 THEN Rat(0, 1)
    ELSE Rat(SumAmounts(Expenditures(g)), grants[g].totalFunding)

getFinancialUtilization(g) ==
    IF grants[g].totalFunding = 0 THEN Rat(0, 1)
    ELSE Rat(SumAmounts(SelectSeq(Expenditures(g), IsApproved)),
             grants[g].totalFunding)

\* getDaysRemaining(), at the current clock value.
getDaysRemaining(g) == MathCeilDays(grants[g].endDate - now)

\* 1 - x for a quotient x.
OneMinus(x) ==
    CASE x.k = "NaN" -> NaN
      [] x.k = "Infinity" -> NegInfinity
      [] x.k = "-Infinity" -> PosInfinity
      [] OTHER -> Rat(x.d - x.n, x.d)

\* Math.abs(x - y) for a finite x and a y that may be NaN or infinite.
AbsDifference(x, y) ==
    CASE y.k = "NaN" -> NaN
      [] y.k \in {"Infinity", "-Infinity"} -> PosInfinity
      [] OTHER -> MathAbs(Minus(x, y))

\* isAtRisk(), at the current clock value.
isAtRisk_Clamped(g) ==
    LET progress == getProgress(g)
        utilization == getFinancialUtilization(g)
        daysRemaining == getDaysRemaining(g)
        totalDays == MathCeilDays(grants[g].endDate - grants[g].startDate)
        timelineProgress ==
            MathMin1(MathMax0(OneMinus(Divide(daysRemaining, totalDays))))
    IN  \/ GreaterThan(AbsDifference(progress, timelineProgress), Rat(3, 10))
        \/ GreaterThan(AbsDifference(utilization, timelineProgress), Rat(3, 10))

isAtRisk(g) ==
    LET progress == getProgress(g)
        utilization == getFinancialUtilization(g)
        daysRemaining == getDaysRemaining(g)
        totalDays == MathCeilDays(grants[g].endDate - grants[g].startDate)
        timelineProgress == OneMinus(Divide(daysRemaining, totalDays))
    IN  \/ GreaterThan(AbsDifference(progress, timelineProgress), Rat(3, 10))
        \/ GreaterThan(AbsDifference(utilization, timelineProgress), Rat(3, 10))

----------------------------------------------------------------------------
(* The helper methods and calculateProgress applied to a Grant built from   *)
(* input data that supplies its milestones and expenditures, while the      *)
(* clock advances.                                                          *)

HelperMilestoneLists ==
    { <<>>,
      <<Milestone("completed", Undefined)>>,
      <<Milestone("pending", Undefined)>>,
      <<Milestone("completed", Some(1)), Milestone("delayed", Undefined)>> }

HelperExpenditureLists ==
    { <<>>,
      <<Expenditure(4, "approved")>>,
      <<Expenditure(4, "approved"), Expenditure(0, "pending")>>,
      <<Expenditure(2, "approved"), Expenditure(2, "pending")>>,
      <<Expenditure(1, "rejected")>> }

\* Grants of two days, one day and no day that end at clock value 3, with
\* and without funding.
HelperDataInputs ==
    [ status       : {Some("active")},
      totalFunding : {Some(4), Undefined},
      startDate    : {Some(-1), Some(1), Some(3)},
      endDate      : {Some(3)},
      milestones   : {TRUE},
      expenditures : {TRUE},
      kpis         : {FALSE},
      documents    : {FALSE},
      reports      : {FALSE},
      complianceRequirements : {FALSE},
      history      : {FALSE},
      version      : {Undefined} ]

InitHelpers ==
    \E data \in HelperDataInputs, milestones \in HelperMilestoneLists,
       expenditures \in HelperExpenditureLists :
        /\ now = 0
        /\ heap = [r \in Refs |->
                      CASE r = <<"data", "milestones">> -> milestones
                        [] r = <<"data", "expenditures">> -> expenditures
                        [] OTHER -> <<>>]
        /\ grants = [g \in GrantIds |-> Constructor(data, g, 0)]
        /\ calls = [g \in GrantIds |-> 0]
        /\ ret = <<>>

\* What a helper call returns, with the grant and the clock value of the call.
NumberResult(kind, g, value) ==
    [kind |-> kind, grantId |-> g, value |-> value, at |-> now]

BooleanResult(kind, g, flag) ==
    [kind |-> kind, grantId |-> g, flag |-> flag, at |-> now]

GetProgress ==
    \E g \in ProgressGrants :
        /\ ret' = <<NumberResult("getProgress", g, getProgress(g))>>
        /\ UNCHANGED <<heap, grants, now, calls>>

GetFinancialUtilization ==
    \E g \in ProgressGrants :
        /\ ret' = <<NumberResult("getFinancialUtilization", g,
                                 getFinancialUtilization(g))>>
        /\ UNCHANGED <<heap, grants, now, calls>>

GetDaysRemaining ==
    \E g \in ProgressGrants :
        /\ ret' = <<NumberResult("getDaysRemaining", g,
                                 Rat(getDaysRemaining(g).n, 1))>>
        /\ UNCHANGED <<heap, grants, now, calls>>

IsAtRisk ==
    \E g \in ProgressGrants :
        /\ ret' = <<BooleanResult("isAtRisk", g, isAtRisk(g))>>
        /\ UNCHANGED <<heap, grants, now, calls>>

NextHelpers ==
    \/ Tick
    \/ CalculateProgress
    \/ GetProgress
    \/ GetFinancialUtilization
    \/ GetDaysRemaining
    \/ IsAtRisk

SpecHelpers == InitHelpers /\ [][NextHelpers]_vars

----------------------------------------------------------------------------
(* Properties of the helper methods                                         *)

ResultsOf(kind) == {r \in Returned : r.kind = kind}

\* The sum of the amounts of the expenditures that are not approved.
UnapprovedSum(expenditures) ==
    SumAmounts(expenditures) - SumAmounts(SelectSeq(expenditures, IsApproved))

\* x <= y and x = y for fractions.
AtMost(x, y) == x.n * y.d <= y.n * x.d

\* The relation of C26 between what getFinancialUtilization returns (u) and
\* the utilizationRate of calculateProgress (rate) for the grant g.
UtilizationsRelated(g, u, rate) ==
    /\ grants[g].totalFunding > 0 =>
           /\ AtMost(u, rate)
           /\ u = rate <=> UnapprovedSum(Expenditures(g)) = 0
    /\ grants[g].totalFunding = 0 => (u = Rat(0, 1) /\ rate = Rat(0, 1))

\* C26: for a grant with totalFunding > 0 (the amounts are non-negative)
\* getFinancialUtilization() is at most the utilizationRate of
\* calculateProgress, and equal to it exactly when the pending and rejected
\* expenditures sum to 0; with totalFunding 0 both are 0.
C26_HelperCountsApprovedOnly ==
    /\ \A r \in ResultsOf("getFinancialUtilization") :
           UtilizationsRelated(r.grantId, r.value,
                               calculateProgress(r.grantId).utilizationRate)
    /\ \A r \in Metrics :
           UtilizationsRelated(r.grantId, getFinancialUtilization(r.grantId),
                               r.utilizationRate)

\* getFinancialUtilization returned 1/2 for a grant on which calculateProgress
\* reports a utilizationRate of 1.
C26_Witness ==
    \E r \in ResultsOf("getFinancialUtilization") :
        /\ r.value = Rat(1, 2)
        /\ calculateProgress(r.grantId).utilizationRate = Rat(1, 1)

\* The whole days from a to b, rounded up as Math.ceil rounds: the integer
\* value of getDaysRemaining and of totalDays.
DaysBetween(a, b) == -((a - b) \div DayLen)

\* |x - t| > 0.3 for a fraction x and t = 1 - D/T with T # 0.
FarFromTimeline(x, D, T) ==
    10 * AbsInt(x.n * T - (T - D) * x.d) > 3 * x.d * AbsInt(T)

\* What C30 says isAtRisk returns for grant g at clock value at: with
\* totalDays = 0 the timeline progress is NaN (not at risk) when daysRemaining
\* is 0 and infinite (at risk) otherwise.
AtRiskRule(g, at) ==
    LET D == DaysBetween(at, grants[g].endDate)
        T == DaysBetween(grants[g].startDate, grants[g].endDate)
    IN  IF T = 0 THEN D # 0
        ELSE \/ FarFromTimeline(getProgress(g), D, T)
             \/ FarFromTimeline(getFinancialUtilization(g), D, T)

\* A funded grant with milestones, all of them completed, whose approved
\* expenditures sum to totalFunding.
CompleteAndSpent(g) ==
    /\ Len(Milestones(g)) > 0
    /\ getProgress(g) = Rat(1, 1)
    /\ grants[g].totalFunding > 0
    /\ getFinancialUtilization(g) = Rat(1, 1)

\* A grant with no milestones and no expenditures.
EmptyGrant(g) == Len(Milestones(g)) = 0 /\ Len(Expenditures(g)) = 0

----------------------------------------------------------------------------
(* Properties of the Grant mutation methods                                 *)

\* The status every Grant of Spec is constructed with (data.status || 'draft').
InitialStatus == ObjectOr(Undefined, "draft")

\* C27: when the history of a Grant is not empty, the `to` of its last entry
\* is the Grant's status and its user the Grant's updatedBy, the `from` of
\* its first entry is the initial status, each entry's `from` is the `to` of
\* the entry before it, and every entry has action STATUS_CHANGE.
C27_StatusLogConsistent ==
    \A g \in GrantIds :
        LET history == History(g)
        IN  history # <<>> =>
                /\ history[Len(history)].changes.status.to = grants[g].status
                /\ history[Len(history)].user = grants[g].updatedBy
                /\ history[1].changes.status.from = InitialStatus
                /\ \A i \in 2..Len(history) :
                       history[i].changes.status.from
                           = history[i - 1].changes.status.to
                /\ \A i \in DOMAIN history :
                       /\ history[i].action = "STATUS_CHANGE"
                       /\ history[i].user \in Users

\* The array behind `field` of Grant g is left as it was by the step.
Kept(g, field) ==
    /\ grants'[g][field] = grants[g][field]
    /\ heap'[grants'[g][field]] = heap[grants[g][field]]

\* The array behind `field` of Grant g got one element of `inputs` appended.
Pushed(g, field, inputs) ==
    /\ grants'[g][field] = grants[g][field]
    /\ \E x \in inputs :
           heap'[grants'[g][field]] = Append(heap[grants[g][field]], x)

ScalarsKept(g) ==
    /\ grants'[g].status = grants[g].status
    /\ grants'[g].updatedBy = grants[g].updatedBy

\* C28: a mutation call on a Grant is one of three: addMilestone, which
\* appends the milestone as the last element of milestones and keeps status,
\* history, expenditures and updatedBy; addExpenditure, which appends the
\* expenditure as the last element of expenditures and keeps status,
\* history, milestones and updatedBy; or updateStatus, which keeps
\* milestones, expenditures, kpis, documents and reports.
C28_MutatorFrames ==
    [][\A g \in GrantIds :
          calls'[g] # calls[g] =>
              \/ /\ Pushed(g, "milestones", MilestoneInputs)
                 /\ Kept(g, "expenditures") /\ Kept(g, "history")
                 /\ ScalarsKept(g)
              \/ /\ Pushed(g, "expenditures", ExpenditureInputs)
                 /\ Kept(g, "milestones") /\ Kept(g, "history")
                 /\ ScalarsKept(g)
              \/ /\ Len(heap'[grants'[g].history]) = Len(heap[grants[g].history]) + 1
                 /\ Kept(g, "milestones") /\ Kept(g, "expenditures")
                 /\ Kept(g, "kpis") /\ Kept(g, "documents")
                 /\ Kept(g, "reports")]_vars

\* A Grant after one call of each method: it has one milestone, one
\* expenditure and one history entry.
C28_Witness ==
    \E g \in GrantIds :
        /\ calls[g] = 3
        /\ Len(Milestones(g)) = 1
        /\ Len(Expenditures(g)) = 1
        /\ Len(History(g)) = 1
        /\ grants[g].status = "closed"

----------------------------------------------------------------------------
(* The status lifecycle: updateStatus called on one Grant with any of the   *)
(* nine GrantStatus values.                                                 *)

LifecycleUpdate_NoReturn ==
    \E s \in GrantStatus, u \in {"alice"} :
        /\ grants["A"].status \notin {"closed", "terminated"}
        /\ updateStatus("A", s, u)

LifecycleUpdate ==
    \E s \in GrantStatus, u \in {"alice"} : updateStatus("A", s, u)

NextLifecycle == LifecycleUpdate

SpecLifecycle == Init /\ [][NextLifecycle]_vars

\* C29: whatever the current status, updateStatus can be called with each of
\* the nine GrantStatus values, the current one included, and the call sets
\* status to that value, increments version and appends one history entry
\* that leads from the current status to it.
C29_NoLifecycleOrder ==
    TotalCalls < MaxCalls =>
        \A s \in GrantStatus :
            ENABLED ( /\ LifecycleUpdate
                      /\ grants'["A"].status = s
                      /\ grants'["A"].version = grants["A"].version + 1
                      /\ Len(heap'[grants'["A"].history]) = Len(History("A")) + 1
                      /\ LET entry == heap'[grants'["A"].history][Len(History("A")) + 1]
                         IN  /\ entry.changes.status.from = grants["A"].status
                             /\ entry.changes.status.to = s )

\* A Grant that was terminated, then set to terminated again, then set back
\* to draft.
C29_Witness ==
    /\ Len(History("A")) = 3
    /\ History("A")[1].changes.status.to = "terminated"
    /\ History("A")[2].changes.status.from = "terminated"
    /\ History("A")[2].changes.status.to = "terminated"
    /\ History("A")[3].changes.status.to = "draft"
    /\ grants["A"].status = "draft"

====
